---------------------------- MODULE Spec2Model ----------------------------
(***************************************************************************)
(* A model of the lazily evaluated stream pipeline of rhzx3519/stream:     *)
(* the iterator sources (iterator.go), the stage chain (stage.go) and the  *)
(* pipeline nodes, intermediate operations and terminal drivers (impl.go). *)
(*                                                                         *)
(* A pipeline is a tree of nodes hanging off one head; all nodes share the *)
(* head's source.  A terminal operation wraps a terminal stage with one    *)
(* stage per node back to the head and then drives the source through the  *)
(* fused stage.  The walk is modelled one driver-loop iteration per step;  *)
(* everything a single Begin/Accept/End call does down the stage chain is  *)
(* part of the step that makes the call.  Every call on a stage and every  *)
(* Next on the source is written to the walk's log.                        *)
(***************************************************************************)
EXTENDS Integers, Sequences, FiniteSets, TLC

\* ------------------------------------------------------------------ bounds
MaxLen == 3        \* longest slice source
MaxVal == 2        \* source elements are 1..MaxVal
MaxNodes == 3      \* pipeline nodes, the head included
MaxWalks == 2      \* terminal invocations in one behaviour

\* --------------------------------------------------------- program constants
unkonwnSize == -1
Nil == 0           \* the nil element / nil result (never a source element)

VARIABLES source, nodes, stages, log, calls, pc, cur, ret, walks

vars == <<source, nodes, stages, log, calls, pc, cur, ret, walks>>

\* ------------------------------------------------------------ small helpers
Min(a, b) == IF a < b THEN a ELSE b

RECURSIVE SeqsUpTo(_, _)
SeqsUpTo(S, n) ==
  IF n = 0 THEN {<<>>}
  ELSE LET P == SeqsUpTo(S, n - 1)
       IN  P \cup {Append(s, x) : s \in {q \in P : Len(q) = n - 1}, x \in S}

\* ------------------------------------------------ caller-supplied functions
\* The library is generic in the functions its callers pass; the model draws
\* them from these named samples.
Predicates == {"isEven", "gt1"}
Functions == {"inc", "double"}
Flatteners == {"pair", "none"}
Hashes == {"identity", "mod2"}
Comparators == {"asc", "desc", "parity"}

Test(p, t) == IF p = "isEven" THEN t % 2 = 0 ELSE t > 1

Apply(f, t) == IF f = "inc" THEN t + 1 ELSE 2 * t

\* the elements of the nested stream a flattener returns for t
Flatten(f, t) == IF f = "pair" THEN <<t, t + 1>> ELSE <<>>

Hash(h, t) == IF h = "identity" THEN t ELSE t % 2

\* types.IntComparator, ReverseOrder(IntComparator), and a comparator on
\* the parity key (a total preorder with ties between unequal elements)
IntComparator(l, r) == IF l > r THEN 1 ELSE IF l < r THEN -1 ELSE 0

ReverseOrder(l, r) == IntComparator(r, l)

Cmp(c, l, r) ==
  CASE c = "asc" -> IntComparator(l, r)
    [] c = "desc" -> ReverseOrder(l, r)
    [] OTHER -> IntComparator(l % 2, r % 2)

\* ------------------------------------------------------------------ sources
\* it(elements...): a slice iterator
it(elements) ==
  [kind |-> "slice", elements |-> elements, current |-> 0,
   size |-> Len(elements), element |-> Nil, first |-> FALSE,
   from |-> 0, to |-> 0, step |-> 0, next |-> 0]

\* withSeed(seed, operator "+1")
withSeed(seed) ==
  [kind |-> "seed", elements |-> <<>>, current |-> 0,
   size |-> 0, element |-> seed, first |-> TRUE,
   from |-> 0, to |-> 0, step |-> 0, next |-> 0]

\* withRange(fromInclude, toExclude, step) over epInt endpoints
withRange(fromInclude, toExclude, step) ==
  [kind |-> "range", elements |-> <<>>, current |-> 0,
   size |-> 0, element |-> Nil, first |-> FALSE,
   from |-> fromInclude, to |-> toExclude, step |-> step, next |-> fromInclude]

\* epInt.CompareTo and epInt.Add, where the subtraction does not overflow
CompareTo(m, other) == m - other

Add(m, step) == m + step

rangeItHasNextForward(src) == CompareTo(src.next, src.to) < 0

\* rangeIt.HasNext: the comparison follows the sign of the step
rangeItHasNext(src) ==
  IF src.step >= 0 THEN CompareTo(src.next, src.to) < 0
  ELSE CompareTo(src.next, src.to) > 0

GetSizeIfKnown(src) == IF src.kind = "slice" THEN src.size ELSE unkonwnSize

HasNext(src) ==
  CASE src.kind = "slice" -> src.current < src.size
    [] src.kind = "range" -> rangeItHasNext(src)
    [] OTHER -> TRUE

\* s.elements[s.current] is in range (otherwise Next panics)
InRange(src) == src.kind = "slice" => src.current < Len(src.elements)

\* the element Next returns
sliceIteratorNext(src) == src.elements[src.current + 1]

seedItNext(src) == IF src.first THEN src.element ELSE Apply("inc", src.element)

NextElem(src) ==
  CASE src.kind = "slice" -> sliceIteratorNext(src)
    [] src.kind = "range" -> src.next
    [] OTHER -> seedItNext(src)

\* the source after Next
NextSrc(src) ==
  IF src.kind = "slice" THEN [src EXCEPT !.current = @ + 1]
  ELSE IF src.kind = "range" THEN [src EXCEPT !.next = Add(@, src.step)]
  ELSE [src EXCEPT !.first = FALSE, !.element = seedItNext(src)]

\* the elements a slice source has not yet returned
Remaining(src) == SubSeq(src.elements, src.current + 1, src.size)

\* ------------------------------------------------------------------- stages
\* One stage of the fused chain: the operation, its argument (fn: the name
\* of the caller's function, n: the count of Limit/Skip) and the variables
\* its closures capture (count, set, list; a terminal's result variables).
NewStage(op, fn, n) ==
  [op |-> op, fn |-> fn, n |-> n, count |-> 0, set |-> {}, list |-> <<>>,
   has |-> FALSE, val |-> Nil, res |-> FALSE]

ChainedOps == {"Filter", "Map", "FlatMap", "Peek", "Distinct", "Sorted", "Limit", "Skip"}
TerminalOps ==
  {"ForEach", "ToSlice", "Reduce", "FindFirst", "Count", "AllMatch", "NoneMatch", "AnyMatch"}

\* the terminal stage each terminal operation builds, with the initial
\* values of the variables its closures capture
newTerminalStage(op, fn) ==
  [NewStage(op, fn, 0) EXCEPT !.res = (op \in {"AllMatch", "NoneMatch"})]

\* the accumulator passed to Reduce: a sum, a weighted sum (neither
\* commutative nor associative), or the later of the two elements
Combiners == {"sum", "shift", "second"}

Combine(f, a, b) ==
  CASE f = "shift" -> 2 * a + b
    [] f = "second" -> b
    [] OTHER -> a + b

\* an entry of the walk's log: a call on stage st (0: the source itself)
Ev(st, ev, v, ok) == [st |-> st, ev |-> ev, v |-> v, ok |-> ok]

Logged(w, e) == [w EXCEPT !.log = Append(@, e)]

\* one invocation of a caller-supplied function (predicate, mapper,
\* flattener, hash function, consumer, combiner; the comparator calls that
\* sort.Sort makes are not counted)
Called(w) == [w EXCEPT !.calls = @ + 1]

\* A caller's function may fail (panic). The sample "brittle", passed as
\* any kind of function, fails when it is handed the element 2; as a
\* comparator it fails whenever it is invoked.
Fails(fn, t) == fn = "brittle" /\ t = 2

\* the function of stage i was invoked with t and failed
Raise(w, i, t) == Logged(Called(w), Ev(i, "Fail", t, FALSE))

FailedNever(w) == FALSE

\* a failure unwinds the walk: neither the stages nor stream.terminal
\* recover from it, so nothing more of the walk runs
Failed(w) == w.log # <<>> /\ w.log[Len(w.log)].ev = "Fail"

\* the stages whose action invokes a function of the caller on every
\* element (Reduce invokes its accumulator from the second element on)
InvokesOn(s) ==
  \/ s.op \in {"Filter", "Map", "FlatMap", "Peek", "Distinct", "ForEach",
               "AllMatch", "NoneMatch", "AnyMatch"}
  \/ s.op = "Reduce" /\ s.has

\* sort.Sort invokes the comparator when the list has two elements or more
SortFails(s) == s.fn = "brittle" /\ Len(s.list) >= 2

LimitCanFinishLate(s) == s.count > s.n

\* canFinish of Limit
LimitCanFinish(s) == s.count >= s.n

\* canFinish of the short-circuiting terminal stages
TerminalCanFinish(s) ==
  CASE s.op = "FindFirst" -> s.has
    [] s.op \in {"AllMatch", "NoneMatch"} -> ~s.res
    [] s.op = "AnyMatch" -> s.res
    [] OTHER -> FALSE

\* stage.CanFinish(): Limit and the terminal stage answer themselves, every
\* other chained stage forwards to its downstream stage
RECURSIVE CanFinish(_, _)
CanFinish(w, i) ==
  LET s == w.stages[i]
  IN  IF s.op = "Limit" THEN LimitCanFinish(s)
      ELSE IF s.op \in TerminalOps THEN TerminalCanFinish(s)
      ELSE CanFinish(w, i + 1)

\* the size Limit and Skip pass to the downstream Begin
LimitBeginSize(s, size) == IF size > 0 /\ size > s.n THEN s.n ELSE size

SkipBeginSizeNoFloor(s, size) == IF size > 0 THEN size - s.n ELSE size

SkipBeginSizeOneMore(s, size) ==
  IF size > 0 THEN (IF size - s.n - 1 < 0 THEN 0 ELSE size - s.n - 1) ELSE size

SkipBeginSize(s, size) ==
  IF size > 0 THEN (IF size - s.n < 0 THEN 0 ELSE size - s.n) ELSE size

\* Limit forwards while count < maxSize; Skip once count >= n
LimitForwards(s) == s.count < s.n

SkipForwardsLate(s) == s.count > s.n

SkipForwards(s) == s.count >= s.n

DistinctForwardsAll(s, hash) == TRUE

\* Distinct forwards an element whose hash code is not in the set
DistinctForwards(s, hash) == hash \notin s.set

LessFlipped(c, x, y) == Cmp(c, x, y) > 0

\* Sortable.Less
Less(c, x, y) == Cmp(c, x, y) < 0

\* sort.Sort(a) on a short list: insertion sort driven by Less and Swap
RECURSIVE SinkDown(_, _, _)
SinkDown(c, l, j) ==
  IF j > 1 /\ Less(c, l[j], l[j - 1])
  THEN SinkDown(c, [l EXCEPT ![j] = l[j - 1], ![j - 1] = l[j]], j - 1)
  ELSE l

RECURSIVE InsertionSort(_, _, _)
InsertionSort(c, l, i) ==
  IF i > Len(l) THEN l ELSE InsertionSort(c, SinkDown(c, l, i), i + 1)

SortList(c, l) == InsertionSort(c, l, 2)

\* the action of a terminal stage
TerminalAccept(w, i, t) ==
  LET s == w.stages[i]
  IN  CASE s.op = "ForEach" -> Called(w)
        [] s.op = "ToSlice" -> [w EXCEPT !.stages[i].list = Append(@, t)]
        [] s.op = "Reduce" ->
             IF ~s.has THEN [w EXCEPT !.stages[i].val = t, !.stages[i].has = TRUE]
             ELSE Called([w EXCEPT !.stages[i].val = Combine(s.fn, s.val, t)])
        [] s.op = "FindFirst" ->
             IF ~s.has THEN [w EXCEPT !.stages[i].val = t, !.stages[i].has = TRUE]
             ELSE w
        [] s.op = "Count" -> [w EXCEPT !.stages[i].count = @ + 1]
        [] s.op = "AllMatch" ->
             IF ~Test(s.fn, t) THEN Called([w EXCEPT !.stages[i].res = FALSE])
             ELSE Called(w)
        [] s.op = "NoneMatch" ->
             IF Test(s.fn, t) THEN Called([w EXCEPT !.stages[i].res = FALSE])
             ELSE Called(w)
        [] OTHER -> \* AnyMatch
             IF Test(s.fn, t) THEN Called([w EXCEPT !.stages[i].res = TRUE])
             ELSE Called(w)

\* the buffer of Sorted and the initial slice of ToSlice: empty slices,
\* the size hint is only their capacity
SortedMakeList(size) == <<>>

ToSliceInitFilled(count) == IF count >= 0 THEN [j \in 1..count |-> Nil] ELSE <<>>

ToSliceInit(count) == <<>>

RECURSIVE Begin(_, _, _)
RECURSIVE Accept(_, _, _)
RECURSIVE End(_, _)
RECURSIVE NestedForEach(_, _, _)
RECURSIVE Replay(_, _, _, _)
RECURSIVE ReplayAll(_, _, _, _)

\* stage.Begin(size)
Begin(w0, i, size) ==
  LET s == w0.stages[i]
      w == Logged(w0, Ev(i, "Begin", size, TRUE))
  IN  IF Failed(w0) THEN w0 ELSE
      CASE s.op \in {"Filter", "FlatMap"} -> Begin(w, i + 1, unkonwnSize)
        [] s.op = "Distinct" ->
             Begin([w EXCEPT !.stages[i].set = {}], i + 1, unkonwnSize)
        [] s.op = "Sorted" ->
             Begin([w EXCEPT !.stages[i].list = SortedMakeList(size)], i + 1, size)
        [] s.op = "Limit" -> Begin(w, i + 1, LimitBeginSize(s, size))
        [] s.op = "Skip" -> Begin(w, i + 1, SkipBeginSize(s, size))
        [] s.op \in {"Map", "Peek"} -> Begin(w, i + 1, size)
        [] s.op = "ToSlice" -> [w EXCEPT !.stages[i].list = ToSliceInit(size)]
        [] OTHER -> w

\* a nested walk that stops after the first element of the nested source
NestedForEachFirstOnly(w, d, src) ==
  IF HasNext(src) THEN Accept(w, d, NextElem(src)) ELSE w

\* ss.ForEach(down.Accept) on the nested stream a flattener returned: the
\* nested terminal stage never finishes early and hands every element of
\* the nested source to stage d
NestedForEach(w, d, src) ==
  IF HasNext(src) /\ ~FALSE /\ ~Failed(w)
  THEN NestedForEach(Accept(w, d, NextElem(src)), d, NextSrc(src))
  ELSE w

\* stage.Accept(t)
Accept(w0, i, t) ==
  LET s == w0.stages[i]
      w == Logged(w0, Ev(i, "Accept", t, ~CanFinish(w0, i)))
  IN  IF Failed(w0) THEN w0 ELSE
      IF InvokesOn(s) /\ Fails(s.fn, t) THEN Raise(w, i, t) ELSE
      CASE s.op = "Filter" ->
             IF Test(s.fn, t) THEN Accept(Called(w), i + 1, t) ELSE Called(w)
        [] s.op = "Map" -> Accept(Called(w), i + 1, Apply(s.fn, t))
        [] s.op = "FlatMap" -> NestedForEach(Called(w), i + 1, it(Flatten(s.fn, t)))
        [] s.op = "Peek" -> Accept(Called(w), i + 1, t)
        [] s.op = "Distinct" ->
             LET hash == Hash(s.fn, t)
             IN  IF DistinctForwards(s, hash)
                 THEN Accept(Called([w EXCEPT !.stages[i].set = @ \cup {hash}]), i + 1, t)
                 ELSE Called(w)
        [] s.op = "Sorted" -> [w EXCEPT !.stages[i].list = Append(@, t)]
        [] s.op = "Limit" ->
             LET w1 == IF LimitForwards(s) THEN Accept(w, i + 1, t) ELSE w
             IN  IF Failed(w1) THEN w1 ELSE [w1 EXCEPT !.stages[i].count = @ + 1]
        [] s.op = "Skip" ->
             LET w1 == IF SkipForwards(s) THEN Accept(w, i + 1, t) ELSE w
             IN  IF Failed(w1) THEN w1 ELSE [w1 EXCEPT !.stages[i].count = @ + 1]
        [] OTHER -> TerminalAccept(w, i, t)

\* a replay that does not ask the downstream stage whether it can finish
ReplayAll(w, d, l, k) ==
  IF k <= Len(l) THEN ReplayAll(Accept(w, d, l[k]), d, l, k + 1) ELSE w

\* the replay loop of Sorted's end over the sorted list l, from index k
Replay(w, d, l, k) ==
  IF k <= Len(l) /\ ~CanFinish(w, d) /\ ~Failed(w)
  THEN Replay(Accept(w, d, l[k]), d, l, k + 1)
  ELSE w

\* stage.End()
End(w0, i) ==
  LET s == w0.stages[i]
      w == Logged(w0, Ev(i, "End", 0, TRUE))
  IN  IF Failed(w0) THEN w0 ELSE
      IF s.op = "Sorted" /\ SortFails(s) THEN Raise(w, i, Nil) ELSE
      CASE s.op = "Distinct" -> End([w EXCEPT !.stages[i].set = {}], i + 1)
        [] s.op = "Sorted" ->
             LET a == SortList(s.fn, s.list)
                 w1 == Begin([w EXCEPT !.stages[i].list = a], i + 1, Len(a))
                 w2 == Replay(w1, i + 1, a, 1)
             IN  IF Failed(w2) THEN w2 ELSE End([w2 EXCEPT !.stages[i].list = <<>>], i + 1)
        [] s.op \in TerminalOps -> w
        [] OTHER -> End(w, i + 1)

\* ----------------------------------------------------------- pipeline nodes
\* newHead(source): the head has no prev node (0) and no wrap function
newHead == [prev |-> 0, op |-> "Head", fn |-> "", n |-> 0]

\* newNode(prev, wrap): the node of one declared operation; its wrap
\* function is named by the operation and its argument
newNode(prev, o) == [prev |-> prev, op |-> o.op, fn |-> o.fn, n |-> o.n]

wrapBehind(i, down) ==
  SubSeq(down, 1, Len(down) - 1) \o <<NewStage(nodes[i].op, nodes[i].fn, nodes[i].n)>>
    \o <<down[Len(down)]>>

\* node.wrap(down): the stage of node i, put in front of the stages down
wrap(i, down) == <<NewStage(nodes[i].op, nodes[i].fn, nodes[i].n)>> \o down

\* wrapStage: from node s back to the head, wrap the terminal stage ts
RECURSIVE wrapFrom(_, _)
wrapFrom(i, stage) ==
  IF nodes[i].prev = 0 THEN stage ELSE wrapFrom(nodes[i].prev, wrap(i, stage))

\* the stages of the previous walk from the same node, handed out again
wrapStageReusing(s, ts) ==
  IF cur.node = s /\ Len(stages) > 1
  THEN SubSeq(stages, 1, Len(stages) - 1) \o <<ts>>
  ELSE wrapFrom(s, <<ts>>)

\* every wrap call builds a new stage, and with it new captured variables
wrapStage(s, ts) == wrapFrom(s, <<ts>>)

\* the operations declared from the head down to node s, in declaration order
RECURSIVE ChainOf(_)
ChainOf(s) == IF nodes[s].prev = 0 THEN <<>> ELSE Append(ChainOf(nodes[s].prev), nodes[s])

\* the operations a caller may declare, and the terminals it may invoke
Op(op, fn, n) == [op |-> op, fn |-> fn, n |-> n]

FilterOps == {Op("Filter", p, 0) : p \in Predicates}
MapOps == {Op("Map", f, 0) : f \in Functions}
FlatMapOps == {Op("FlatMap", f, 0) : f \in Flatteners}
PeekOps == {Op("Peek", "peek", 0)}
DistinctOps == {Op("Distinct", h, 0) : h \in Hashes}
SortedOps == {Op("Sorted", c, 0) : c \in Comparators}
LimitOps == {Op("Limit", "", n) : n \in 0..MaxLen}
SkipOps == {Op("Skip", "", n) : n \in 0..MaxLen}

Term(op, fn) == [op |-> op, fn |-> fn]

MatchTerms == {Term(op, p) : op \in {"AllMatch", "NoneMatch", "AnyMatch"}, p \in Predicates}
AllTerms ==
  {Term("ForEach", "consume"), Term("ToSlice", ""), Term("Reduce", "sum"),
   Term("FindFirst", ""), Term("Count", "")} \cup MatchTerms

\* the operations and terminals the specifications below draw from
LifeOps ==
  {Op("Filter", "isEven", 0), Op("Map", "inc", 0), Op("FlatMap", "pair", 0),
   Op("Peek", "peek", 0), Op("Distinct", "mod2", 0), Op("Sorted", "asc", 0),
   Op("Limit", "", 2), Op("Skip", "", 1)}

LifeTerms ==
  {Term("ToSlice", ""), Term("FindFirst", ""), Term("AnyMatch", "gt1"),
   Term("AllMatch", "gt1"), Term("NoneMatch", "gt1")}

ToSliceTerms == {Term("ToSlice", "")}

ReduceTerms == {Term("Reduce", f) : f \in Combiners}

StatelessOps == {Op("Filter", "isEven", 0)} \cup MapOps \cup PeekOps

StatefulOps ==
  {Op("Distinct", "identity", 0), Op("Sorted", "asc", 0), Op("Limit", "", 1),
   Op("Skip", "", 1)}

SortedLimitOps == SortedOps \cup {Op("Limit", "", 1)}

FlatMapLimitOps == FlatMapOps \cup {Op("Limit", "", 1)}

DistinctFlatMapOps == DistinctOps \cup {Op("FlatMap", "pair", 0)}

LimitSkipOps == {Op("Limit", "", 2), Op("Skip", "", 1)}

AgainOps == {Op("Filter", "isEven", 0), Op("Sorted", "asc", 0), Op("Limit", "", 1)}

ReplayOps ==
  {Op("Sorted", "asc", 0), Op("Sorted", "desc", 0), Op("Limit", "", 2),
   Op("Filter", "isEven", 0)}

HintOps ==
  {Op("Filter", "isEven", 0), Op("Map", "inc", 0), Op("FlatMap", "none", 0),
   Op("Peek", "peek", 0), Op("Distinct", "identity", 0), Op("Sorted", "asc", 0),
   Op("Limit", "", 2), Op("Skip", "", 2)}

AdvisoryOps == {Op("Sorted", "desc", 0), Op("Limit", "", 2), Op("Skip", "", 1)}

AdvisoryTerms ==
  {Term("ToSlice", ""), Term("FindFirst", ""), Term("Count", ""), Term("AnyMatch", "gt1")}

FailureOps ==
  {Op("Map", "brittle", 0), Op("FlatMap", "brittle", 0), Op("Distinct", "brittle", 0),
   Op("Sorted", "brittle", 0), Op("Sorted", "desc", 0)}

FailureTerms ==
  {Term("ForEach", "brittle"), Term("Reduce", "brittle"), Term("AnyMatch", "brittle")}

SkipLimitOps == SkipOps \cup {Op("Limit", "", 1)}

BoundOps ==
  {Op("FlatMap", "pair", 0), Op("Sorted", "asc", 0), Op("Limit", "", 2),
   Op("Skip", "", 1)}

OpMenus ==
  {BoundOps, SkipLimitOps, AdvisoryOps, FailureOps, HintOps, LifeOps, LimitOps, StatelessOps, StatefulOps, SortedLimitOps, FlatMapLimitOps,
   DistinctFlatMapOps, LimitSkipOps, AgainOps, ReplayOps}

TermMenus == {AdvisoryTerms, FailureTerms, LifeTerms, ToSliceTerms, ReduceTerms, AllTerms}

\* an intermediate operation names its kind, its function and a count that
\* is not negative; a terminal names its kind
WellFormed ==
  /\ \A m \in OpMenus : \A o \in m : o.op \in ChainedOps /\ o.n >= 0
  /\ \A m \in TermMenus : \A t \in m : t.op \in TerminalOps

SliceSources == {it(e) : e \in SeqsUpTo(1..MaxVal, MaxLen)}
CountingSources == {it([j \in 1..n |-> j]) : n \in 0..MaxLen}
SeedSources == {withSeed(v) : v \in 1..MaxVal}
RangeSources ==
  {withRange(f, t, st) : f \in -MaxVal..MaxVal, t \in -MaxVal..MaxVal, st \in -MaxVal..MaxVal}

\* ------------------------------------------------------------------ actions
NoResult == [op |-> "none", list |-> <<>>, val |-> Nil, present |-> FALSE, res |-> FALSE, count |-> 0]

\* the walks over a source that is not a slice stay finite in the model:
\* Next is called on it at most MaxPulls times in a walk
MaxPulls == MaxLen + 1

InitWith(sources) ==
  /\ WellFormed
  /\ source \in sources
  /\ nodes = <<newHead>>
  /\ stages = <<>>
  /\ log = <<>>
  /\ calls = 0
  /\ pc = "idle"
  /\ cur = [node |-> 0, src |-> source]
  /\ ret = NoResult
  /\ walks = 0

\* the nodes the caller declares an operation on: any node (pipelines that
\* branch from a common node) or, for a single chain, the latest node
Parents(branching) == IF branching THEN 1..Len(nodes) ELSE {Len(nodes)}

DeclareEager(ops, branching) ==
  \E p \in Parents(branching), o \in ops :
    /\ pc = "idle"
    /\ Len(nodes) < MaxNodes
    /\ nodes' = Append(nodes, newNode(p, o))
    /\ source' = IF HasNext(source) THEN NextSrc(source) ELSE source
    /\ UNCHANGED <<stages, log, calls, pc, cur, ret, walks>>

\* an intermediate operation o declared on node p: only a new node is made
Declare(ops, branching) ==
  \E p \in Parents(branching), o \in ops :
    /\ pc = "idle"
    /\ Len(nodes) < MaxNodes
    /\ nodes' = Append(nodes, newNode(p, o))
    /\ UNCHANGED <<source, stages, log, calls, pc, cur, ret, walks>>

\* a source of its own for node s, its cursor at the start
SourceCopyOf(s) ==
  IF source.kind = "slice" THEN [source EXCEPT !.current = 0] ELSE source

\* s.source: newNode hands every node the iterator of its prev node, so
\* all nodes hold the one iterator of the head
SourceOf(s) == source

\* stream.terminal, up to the loop: the stages are wrapped and begun
Terminal(terms) ==
  \E s \in 1..Len(nodes), t \in terms :
    /\ pc = "idle"
    /\ walks < MaxWalks
    /\ LET stage == wrapStage(s, newTerminalStage(t.op, t.fn))
           w0 == [stages |-> stage,
                  log |-> <<Ev(0, "GetSizeIfKnown", GetSizeIfKnown(SourceOf(s)), TRUE)>>,
                  calls |-> 0]
           w == Begin(w0, 1, GetSizeIfKnown(SourceOf(s)))
       IN  /\ stages' = w.stages
           /\ log' = w.log
           /\ calls' = w.calls
    /\ pc' = "loop"
    /\ source' = SourceOf(s)
    /\ cur' = [node |-> s, src |-> SourceOf(s)]
    /\ ret' = NoResult
    /\ UNCHANGED <<nodes, walks>>

Walk == [stages |-> stages, log |-> log, calls |-> calls]

\* the places of the log where stage st (0: the source) got the call ev
At(st, ev) == {k \in DOMAIN log : log[k].st = st /\ log[k].ev = ev}

\* the arguments of those calls, in order
RECURSIVE ArgsFrom(_, _, _)
ArgsFrom(st, ev, k) ==
  IF k > Len(log) THEN <<>>
  ELSE IF log[k].st = st /\ log[k].ev = ev THEN <<log[k].v>> \o ArgsFrom(st, ev, k + 1)
  ELSE ArgsFrom(st, ev, k + 1)

Args(st, ev) == ArgsFrom(st, ev, 1)

\* the Next calls the current walk has made
Pulls == Cardinality(At(0, "Next"))

LoopGuardNoHasNext(src, w) == ~CanFinish(w, 1)

\* the condition of the driver loop: source.HasNext() && !stage.CanFinish()
LoopGuard(src, w) == HasNext(src) /\ ~CanFinish(w, 1)

\* the checks the loop condition makes, as log entries (CanFinish is only
\* asked when HasNext returned true)
GuardLog(src, w) ==
  <<Ev(0, "HasNext", 0, HasNext(src))>> \o
    (IF HasNext(src) THEN <<Ev(1, "CanFinish", 0, CanFinish(w, 1))>> ELSE <<>>)

\* one iteration of the driver loop: stage.Accept(source.Next()); a Next
\* beyond the end of the slice panics with an index out of range
Pull ==
  /\ pc = "loop"
  /\ LoopGuard(source, Walk)
  /\ source.kind # "slice" => Pulls < MaxPulls
  /\ IF InRange(source)
     THEN LET w0 == [Walk EXCEPT !.log = @ \o GuardLog(source, Walk) \o
                                         <<Ev(0, "Next", NextElem(source), TRUE)>>]
              w == Accept(w0, 1, NextElem(source))
          IN  /\ stages' = w.stages
              /\ log' = w.log
              /\ calls' = w.calls
              /\ source' = NextSrc(source)
              /\ pc' = IF Failed(w) THEN "panic" ELSE pc
     ELSE /\ log' = log \o GuardLog(source, Walk) \o <<Ev(0, "Next", Nil, FALSE)>>
          /\ pc' = "panic"
          /\ UNCHANGED <<source, stages, calls>>
  /\ UNCHANGED <<nodes, cur, ret, walks>>

\* optional.OfNullable(result): present unless the result is nil
OfNullable(v) == v # Nil

\* what the terminal operation returns from its terminal stage
Result(ts) ==
  [op |-> ts.op, list |-> ts.list, val |-> ts.val,
   present |-> (ts.op \in {"Reduce", "FindFirst"} /\ OfNullable(ts.val)),
   res |-> ts.res, count |-> ts.count]

\* the loop is left: stage.End(), and the terminal operation returns
Finish ==
  /\ pc = "loop"
  /\ ~LoopGuard(source, Walk)
  /\ LET w == End([Walk EXCEPT !.log = @ \o GuardLog(source, Walk)], 1)
     IN  /\ stages' = w.stages
         /\ log' = w.log
         /\ calls' = w.calls
         /\ IF Failed(w)
            THEN pc' = "panic" /\ UNCHANGED <<ret, walks>>
            ELSE /\ ret' = Result(w.stages[Len(w.stages)])
                 /\ pc' = "idle"
                 /\ walks' = walks + 1
  /\ UNCHANGED <<source, nodes, cur>>

\* stream.terminal as a function: the whole walk of source src from node
\* s with the terminal stage ts, from Begin to End
RECURSIVE Drive(_, _)
Drive(src, w) ==
  IF LoopGuard(src, w) /\ ~Failed(w)
  THEN Drive(NextSrc(src),
             Accept([w EXCEPT !.log = @ \o GuardLog(src, w) \o
                                      <<Ev(0, "Next", NextElem(src), TRUE)>>],
                    1, NextElem(src)))
  ELSE End([w EXCEPT !.log = @ \o GuardLog(src, w)], 1)

RunWalk(src, s, ts) ==
  LET w0 == [stages |-> wrapStage(s, ts),
             log |-> <<Ev(0, "GetSizeIfKnown", GetSizeIfKnown(src), TRUE)>>,
             calls |-> 0]
  IN  Drive(src, Begin(w0, 1, GetSizeIfKnown(src)))

\* a walk has run to its end and its result is returned
Returned == pc = "idle" /\ walks > 0 /\ ret.op # "none"

\* ----------------------------------------------------------- specifications
\* Each specification draws the declared operations, the terminal
\* operations and the sources from the sets its claims are about.

\* every operation, one sample argument each, and every kind of terminal
Init == InitWith(SliceSources)

Next == Declare(LifeOps, FALSE) \/ Terminal(LifeTerms) \/ Pull \/ Finish

Spec == Init /\ [][Next]_vars

\* pipelines of every operation, branching from any node, over the sources
\* 1..n
InitLazy == InitWith(CountingSources)

NextLazy == Declare(LifeOps, TRUE) \/ Terminal(ToSliceTerms) \/ Pull \/ Finish

SpecLazy == InitLazy /\ [][NextLazy]_vars

\* Limit alone, over slice sources and the infinite seed source
InitLimit == InitWith(SliceSources \cup SeedSources)

NextLimit == Declare(LimitOps, FALSE) \/ Terminal(ToSliceTerms) \/ Pull \/ Finish

SpecLimit == InitLimit /\ [][NextLimit]_vars

\* the stateless operations, collected by ToSlice
NextStateless ==
  Declare(StatelessOps, FALSE) \/ Terminal(ToSliceTerms) \/ Pull \/ Finish

SpecStateless == Init /\ [][NextStateless]_vars

\* the stateful operations, run repeatedly
NextStateful ==
  Declare(StatefulOps, FALSE) \/ Terminal(ToSliceTerms) \/ Pull \/ Finish

SpecStateful == Init /\ [][NextStateful]_vars

\* Sorted under every comparator, with and without a downstream that finishes
NextSorted ==
  \/ Declare(SortedLimitOps, FALSE)
  \/ Terminal(ToSliceTerms)
  \/ Pull
  \/ Finish

SpecSorted == Init /\ [][NextSorted]_vars

\* FlatMap under both flatteners, alone, nested and in front of a Limit
NextFlatMap ==
  \/ Declare(FlatMapLimitOps, FALSE)
  \/ Terminal(ToSliceTerms)
  \/ Pull
  \/ Finish

SpecFlatMap == Init /\ [][NextFlatMap]_vars

\* Reduce under every combiner, behind Limit and Skip, over slices of
\* integers and over the slice that holds one nil element
InitReduce == InitWith(SliceSources \cup {it(<<Nil>>)})

NextReduce ==
  \/ Declare(LimitSkipOps, FALSE)
  \/ Terminal(ReduceTerms)
  \/ Pull
  \/ Finish

SpecReduce == InitReduce /\ [][NextReduce]_vars

\* every terminal operation, run and run again over the sources 1..n (the
\* empty one included), behind Filter, Sorted and Limit
NextAgain ==
  \/ Declare(AgainOps, FALSE)
  \/ Terminal(AllTerms)
  \/ Pull
  \/ Finish

SpecAgain == InitLazy /\ [][NextAgain]_vars

\* Sorted in front of and behind a Limit and a Filter
NextReplay ==
  \/ Declare(ReplayOps, FALSE)
  \/ Terminal(ToSliceTerms)
  \/ Pull
  \/ Finish

SpecReplay == Init /\ [][NextReplay]_vars

\* every operation, over sources of known size (the slices 1..n) and of
\* unknown size (the seed sources)
InitHint == InitWith(CountingSources \cup SeedSources)

NextHint == Declare(HintOps, FALSE) \/ Terminal(ToSliceTerms) \/ Pull \/ Finish

SpecHint == InitHint /\ [][NextHint]_vars

\* the range sources, walked in full and in parts
InitRange == InitWith(RangeSources)

NextRange == Declare(LimitSkipOps, FALSE) \/ Terminal(ToSliceTerms) \/ Pull \/ Finish

SpecRange == InitRange /\ [][NextRange]_vars

\* the elements 1..n from sources that report their size differently: a
\* new slice (the exact count), a slice an earlier walk has partly
\* consumed (its full length) and a range (unknown)
AdvisorySources ==
  CountingSources \cup {withRange(1, n + 1, 1) : n \in 0..MaxLen}

InitAdvisory == InitWith(AdvisorySources)

NextAdvisory ==
  Declare(AdvisoryOps, FALSE) \/ Terminal(AdvisoryTerms) \/ Pull \/ Finish

SpecAdvisory == InitAdvisory /\ [][NextAdvisory]_vars

\* functions that fail, of every kind: mapper, flattener, hash function,
\* comparator, consumer, combiner and predicate, in front of and behind a
\* Sorted stage
NextFailure ==
  Declare(FailureOps, FALSE) \/ Terminal(FailureTerms) \/ Pull \/ Finish

SpecFailure == InitLazy /\ [][NextFailure]_vars

\* Skip of every count, alone, repeated, and in front of and behind a
\* Limit, over the sources 1..n
NextSkip == Declare(SkipLimitOps, FALSE) \/ Terminal(ToSliceTerms) \/ Pull \/ Finish

SpecSkip == InitLazy /\ [][NextSkip]_vars

\* the operations that change the hint or the number of elements, over
\* the sources 1..n, in pipelines that branch from any node, so that the
\* walk of one branch finds the source partly consumed by another's
NextBound == Declare(BoundOps, TRUE) \/ Terminal(ToSliceTerms) \/ Pull \/ Finish

SpecBound == InitLazy /\ [][NextBound]_vars

\* Distinct under both hash functions, fed by the source or by FlatMap
NextDistinct ==
  \/ Declare(DistinctFlatMapOps, FALSE)
  \/ Terminal(ToSliceTerms)
  \/ Pull
  \/ Finish

SpecDistinct == Init /\ [][NextDistinct]_vars

\* ------------------------------------------------------------------- claims
\* the terminal stage of the current walk, and the elements the source had
\* left when the walk started
Last == Len(stages)

Started == stages # <<>>

K == cur.src.size - cur.src.current

\* C1: in one terminal invocation every stage of the fused chain gets Begin
\* exactly once and before its first Accept, and End exactly once, after its
\* last Accept and never before its Begin.
C1_BeginOnceEndOnce ==
  \A i \in 1..Len(stages) :
    /\ Cardinality(At(i, "Begin")) <= 1
    /\ Cardinality(At(i, "End")) <= 1
    /\ \A a \in At(i, "Accept") : \E b \in At(i, "Begin") : b < a
    /\ \A e \in At(i, "End") :
         /\ \E b \in At(i, "Begin") : b < e
         /\ \A a \in At(i, "Accept") : a < e
    /\ Returned => Cardinality(At(i, "Begin")) = 1 /\ Cardinality(At(i, "End")) = 1

\* C2: a stage receives an Accept only while its CanFinish returns false.
C2_AcceptOnlyWhileNotFinished ==
  \A k \in DOMAIN log : log[k].ev = "Accept" => log[k].ok

\* the entry k of the log is the Accept that fixes the result of a
\* short-circuiting terminal stage
Decides(k) ==
  /\ log[k].st = Last
  /\ log[k].ev = "Accept"
  /\ CASE stages[Last].op = "FindFirst" -> TRUE
       [] stages[Last].op = "AnyMatch" -> Test(stages[Last].fn, log[k].v)
       [] stages[Last].op = "NoneMatch" -> Test(stages[Last].fn, log[k].v)
       [] stages[Last].op = "AllMatch" -> ~Test(stages[Last].fn, log[k].v)
       [] OTHER -> FALSE

\* C3: once a short-circuiting terminal stage has accepted the element that
\* fixes its result, the source's Next is not called again in that walk.
C3_NoNextAfterDecided ==
  \A j \in DOMAIN log, k \in DOMAIN log :
    (j < k /\ Decides(j)) => log[k].ev # "Next"

\* C5: over a slice source with K elements left the driver calls Next at
\* most K times, every Next follows a HasNext that returned true (so none
\* runs off the end of the slice), and a walk in which no CanFinish check of
\* the fused stage returned true calls Next exactly K times.
C5_SinglePass ==
  Started =>
    /\ pc # "panic"
    /\ Pulls <= K
    /\ \A k \in At(0, "Next") :
         /\ log[k].ok
         /\ k > 2 /\ log[k - 2].ev = "HasNext" /\ log[k - 2].ok
    /\ (Returned /\ \A c \in At(1, "CanFinish") : ~log[c].ok) => Pulls = K

C5_Witness ==
  /\ Returned
  /\ K = MaxLen
  /\ Pulls = K
  /\ Len(stages) > 1

\* the first m elements the source src has left: of a slice, what follows
\* its cursor; of the seed source, the seed and its successors
FirstLeft(src, m) ==
  IF src.kind = "slice"
  THEN SubSeq(src.elements, src.current + 1, src.current + Min(m, src.size - src.current))
  ELSE [j \in 1..m |-> src.element + j - (IF src.first THEN 1 ELSE 0)]

\* the current walk is source.Limit(m).ToSlice()
LimitToSlice ==
  /\ Len(stages) = 2
  /\ stages[1].op = "Limit"
  /\ stages[2].op = "ToSlice"

\* C4: source.Limit(m).ToSlice() returns the first min(m, K) elements the
\* source has left, in order (the first m of the infinite seed source), and
\* calls Next exactly that many times: never more than m times during the
\* walk, and not at all when m = 0.
C4_LimitToSlice ==
  LimitToSlice =>
    /\ Pulls <= stages[1].n
    /\ Returned =>
         /\ ret.list = FirstLeft(cur.src, stages[1].n)
         /\ Pulls = Len(FirstLeft(cur.src, stages[1].n))

C4_Witness ==
  /\ LimitToSlice
  /\ Returned
  /\ source.kind = "seed"
  /\ stages[1].n = MaxLen
  /\ Len(ret.list) = MaxLen
  /\ Pulls = MaxLen

\* C6: declaring an intermediate operation only adds a node: it makes no
\* call on the source (its cursor and the log of calls stay as they are),
\* invokes no caller-supplied function and builds no stage.
C6_DeclareIsLazy ==
  [][nodes' # nodes => UNCHANGED <<source, stages, log, calls, pc, cur, ret, walks>>]_vars

C6_Witness ==
  /\ Len(nodes) = MaxNodes
  /\ walks = 0
  /\ pc = "idle"
  /\ source.size = MaxLen
  /\ source.current = 0
  /\ log = <<>>
  /\ stages = <<>>
  /\ calls = 0

\* What a chain of operations makes of a whole sequence, one operation after
\* the other in declaration order.
RECURSIVE FirstByHashFrom(_, _, _)
FirstByHashFrom(h, seq, k) ==
  IF k > Len(seq) THEN <<>>
  ELSE IF \A j \in 1..(k - 1) : Hash(h, seq[j]) # Hash(h, seq[k])
       THEN <<seq[k]>> \o FirstByHashFrom(h, seq, k + 1)
       ELSE FirstByHashFrom(h, seq, k + 1)

FirstByHash(h, seq) == FirstByHashFrom(h, seq, 1)

\* the nested sequences of the elements of seq, one after the other
RECURSIVE FlatAll(_, _)
FlatAll(f, seq) ==
  IF seq = <<>> THEN <<>> ELSE Flatten(f, Head(seq)) \o FlatAll(f, Tail(seq))

RefOp(o, seq) ==
  CASE o.op = "Filter" -> SelectSeq(seq, LAMBDA t : Test(o.fn, t))
    [] o.op = "FlatMap" -> FlatAll(o.fn, seq)
    [] o.op = "Map" -> [j \in 1..Len(seq) |-> Apply(o.fn, seq[j])]
    [] o.op = "Peek" -> seq
    [] o.op = "Distinct" -> FirstByHash(o.fn, seq)
    [] o.op = "Sorted" -> SortList(o.fn, seq)
    [] o.op = "Limit" -> SubSeq(seq, 1, Min(o.n, Len(seq)))
    [] o.op = "Skip" -> SubSeq(seq, Min(o.n, Len(seq)) + 1, Len(seq))
    [] OTHER -> seq

\* the first n operations of chain applied to seq
RECURSIVE RefPipe(_, _, _)
RefPipe(chain, n, seq) ==
  IF n = 0 THEN seq ELSE RefOp(chain[n], RefPipe(chain, n - 1, seq))

\* C7: over a slice source a pipeline of Filter, Map and Peek hands ToSlice
\* the source elements after the operations were applied in declaration
\* order, in source order; and every stage of the chain is handed what the
\* operations declared before it make of the source elements.
C7_DeclarationOrder ==
  (Returned /\ ret.op = "ToSlice") =>
    LET chain == ChainOf(cur.node)
    IN  /\ ret.list = RefPipe(chain, Len(chain), Remaining(cur.src))
        /\ \A i \in 1..Len(stages) :
             Args(i, "Accept") = RefPipe(chain, i - 1, Remaining(cur.src))

C7_Witness ==
  /\ Returned
  /\ Remaining(cur.src) = <<1, 2, 2>>
  /\ Len(stages) = 3
  /\ stages[1].op = "Filter" /\ stages[1].fn = "isEven"
  /\ stages[2].op = "Map" /\ stages[2].fn = "double"
  /\ ret.list = <<4, 4>>

\* C8: the stages of a terminal invocation are new: when a walk starts, the
\* counters of Limit and Skip are zero and the set of Distinct and the
\* buffer of Sorted are empty, whatever an earlier walk did; and what the
\* walk returns is what the chain makes of the elements the source had left
\* when the walk started.
C8_FreshStages ==
  /\ (pc = "loop" /\ At(0, "Next") = {}) =>
       \A i \in 1..Len(stages) :
         stages[i].count = 0 /\ stages[i].set = {} /\ stages[i].list = <<>>
  /\ (Returned /\ ret.op = "ToSlice") =>
       LET chain == ChainOf(cur.node)
       IN  ret.list = RefPipe(chain, Len(chain), Remaining(cur.src))

\* the second walk of Limit(1) returns the second element
C8_Witness ==
  /\ Returned
  /\ walks = 2
  /\ Len(stages) = 2
  /\ stages[1].op = "Limit" /\ stages[1].n = 1
  /\ cur.src.current = 1
  /\ cur.src.elements = <<1, 2, 1>>
  /\ ret.list = <<2>>

CountOf(seq, v) == Cardinality({k \in DOMAIN seq : seq[k] = v})

IsPermutation(a, b) ==
  /\ Len(a) = Len(b)
  /\ \A k \in DOMAIN a : CountOf(a, a[k]) = CountOf(b, a[k])

\* C9: a Sorted stage hands nothing downstream before its End is called;
\* when the walk is over and the downstream stage has not asked to finish,
\* what it handed downstream is a permutation of what it accepted, in
\* non-decreasing order of the comparator.
C9_SortedOutput ==
  \A i \in 1..Len(stages) :
    stages[i].op = "Sorted" =>
      /\ \A d \in At(i + 1, "Accept") :
           /\ \E e \in At(i, "End") : e < d
           /\ \A a \in At(i, "Accept") : a < d
      /\ (Returned /\ ~CanFinish(Walk, i + 1)) =>
           LET in == Args(i, "Accept")
               out == Args(i + 1, "Accept")
           IN  /\ IsPermutation(in, out)
               /\ \A k \in 1..(Len(out) - 1) : Cmp(stages[i].fn, out[k], out[k + 1]) <= 0

C9_Witness ==
  /\ Returned
  /\ Len(stages) = 2
  /\ stages[1].op = "Sorted" /\ stages[1].fn = "asc"
  /\ Args(1, "Accept") = <<2, 1, 2>>
  /\ Args(2, "Accept") = <<1, 2, 2>>
  /\ ret.list = <<1, 2, 2>>

\* C10: a Distinct stage hands an element downstream exactly when no
\* element it accepted earlier in the walk has the same hash code.
C10_DistinctByHash ==
  \A i \in 1..Len(stages) :
    stages[i].op = "Distinct" =>
      Args(i + 1, "Accept") = FirstByHash(stages[i].fn, Args(i, "Accept"))

\* 1 and 3 share the hash code 1: only the first of them gets through
C10_Witness ==
  /\ Returned
  /\ Len(stages) = 3
  /\ stages[2].op = "Distinct" /\ stages[2].fn = "mod2"
  /\ Args(2, "Accept") = <<1, 2, 2, 3>>
  /\ Args(3, "Accept") = <<1, 2>>

\* the arguments of the calls ev on stage st that the log holds before its
\* entry n, in order
ArgsBefore(st, ev, n) ==
  LET sel == SelectSeq(SubSeq(log, 1, n - 1), LAMBDA e : e.st = st /\ e.ev = ev)
  IN  [j \in 1..Len(sel) |-> sel[j].v]

\* C11: a FlatMap stage hands downstream, for each element it accepts in
\* order, every element of the nested sequence in that sequence's order;
\* the nested sequences of the elements accepted so far are delivered in
\* full before the next Next on the source and before the next Accept of
\* the FlatMap stage; ToSlice right after FlatMap over the source returns
\* the concatenation of the nested sequences.
C11_FlatMapInOrder ==
  \A i \in 1..Len(stages) :
    stages[i].op = "FlatMap" =>
      /\ Args(i + 1, "Accept") = FlatAll(stages[i].fn, Args(i, "Accept"))
      /\ \A n \in At(0, "Next") \cup At(i, "Accept") :
           ArgsBefore(i + 1, "Accept", n) =
             FlatAll(stages[i].fn, ArgsBefore(i, "Accept", n))
      /\ (Returned /\ Len(stages) = 2) =>
           ret.list = FlatAll(stages[i].fn, Remaining(cur.src))

C11_Witness ==
  /\ Returned
  /\ Len(stages) = 2
  /\ stages[1].op = "FlatMap" /\ stages[1].fn = "pair"
  /\ Remaining(cur.src) = <<2, 1>>
  /\ ret.list = <<2, 3, 1, 2>>
  /\ Pulls = 2

\* the left fold of a non-empty sequence, its first element the seed
RECURSIVE FoldLeft(_, _)
FoldLeft(f, seq) ==
  IF Len(seq) = 1 THEN seq[1]
  ELSE Combine(f, FoldLeft(f, SubSeq(seq, 1, Len(seq) - 1)), seq[Len(seq)])

\* C12: Reduce returns an absent optional exactly when no element reached
\* the terminal stage; when e1..en reached it (n >= 1, a nil element
\* included) it returns present, holding the left fold of e1..en with e1
\* as the seed, and the combiner was invoked exactly n - 1 times.
C12_ReduceFold ==
  (Returned /\ ret.op = "Reduce") =>
    LET in == Args(Last, "Accept")
    IN  /\ ret.present <=> Len(in) >= 1
        /\ Len(in) >= 1 =>
             /\ ret.val = FoldLeft(stages[Last].fn, in)
             /\ calls = Len(in) - 1

\* the result a terminal operation returns when no element reached it
EmptyResult ==
  CASE ret.op = "ToSlice" -> ret.list = <<>>
    [] ret.op = "Count" -> ret.count = 0
    [] ret.op \in {"Reduce", "FindFirst"} -> ~ret.present
    [] ret.op \in {"AllMatch", "NoneMatch"} -> ret.res
    [] ret.op = "AnyMatch" -> ~ret.res
    [] OTHER -> TRUE

\* the rest of C13 without the count of Begin calls
ExhaustedWalkIsEmpty ==
  (Started /\ ~HasNext(cur.src)) =>
    /\ pc # "panic"
    /\ Pulls = 0
    /\ At(Last, "Accept") = {}
    /\ Returned => Cardinality(At(Last, "End")) = 1 /\ EmptyResult

\* C13: a terminal operation invoked when the source is already exhausted
\* completes without error: the walk makes no Next call and hands the
\* terminal stage no element, the terminal stage gets Begin once and End
\* once, and the empty result is returned.
C13_ExhaustedSource ==
  /\ ExhaustedWalkIsEmpty
  /\ (Started /\ ~HasNext(cur.src) /\ Returned) => Cardinality(At(Last, "Begin")) = 1

\* C14: the End of a Sorted stage calls Begin on its downstream stage with
\* the exact number of buffered elements, then hands it the sorted
\* elements one by one, each only while the downstream CanFinish is false,
\* and stops as soon as it is true; then it calls the downstream End, once.
\* Sorted followed by Limit(k) delivers the k smallest elements in order.
\* The End of no other operation hands its downstream stage a Begin or an
\* Accept.
C14_SortedReplay ==
  /\ \A i \in 1..(Len(stages) - 1) :
       IF stages[i].op = "Sorted"
       THEN \A e \in At(i, "End") :
              LET in == Args(i, "Accept")
                  out == Args(i + 1, "Accept")
              IN  /\ log[e + 1] = Ev(i + 1, "Begin", Len(in), TRUE)
                  /\ \A a \in At(i + 1, "Accept") : a > e + 1 /\ log[a].ok
                  /\ Len(out) <= Len(in)
                  /\ out = SubSeq(SortList(stages[i].fn, in), 1, Len(out))
                  /\ Len(out) < Len(in) => CanFinish(Walk, i + 1)
                  /\ Cardinality(At(i + 1, "End")) = 1
                  /\ \A d \in At(i + 1, "End") :
                       d > e /\ \A a \in At(i + 1, "Accept") : a < d
       ELSE \A e \in At(i, "End"), k \in At(i + 1, "Begin") \cup At(i + 1, "Accept") :
              k < e
  /\ (Returned /\ Len(stages) = 3 /\ stages[1].op = "Sorted" /\ stages[2].op = "Limit") =>
       LET srt == SortList(stages[1].fn, Remaining(cur.src))
       IN  ret.list = SubSeq(srt, 1, Min(stages[2].n, Len(srt)))

C14_Witness ==
  /\ Returned
  /\ Len(stages) = 3
  /\ stages[1].op = "Sorted" /\ stages[1].fn = "asc"
  /\ stages[2].op = "Limit" /\ stages[2].n = 2
  /\ Args(1, "Accept") = <<2, 1, 2>>
  /\ Args(2, "Accept") = <<1, 2>>
  /\ ret.list = <<1, 2>>

Max(a, b) == IF a > b THEN a ELSE b

\* the size hint operation o passes downstream for the incoming hint h
HintAfter(o, h) ==
  CASE o.op \in {"Filter", "FlatMap", "Distinct"} -> unkonwnSize
    [] o.op \in {"Map", "Peek", "Sorted"} -> h
    [] o.op = "Limit" -> IF h > 0 THEN Min(h, o.n) ELSE h
    [] o.op = "Skip" -> IF h > 0 THEN Max(h - o.n, 0) ELSE h
    [] OTHER -> h

\* the hint behind the first n operations of chain
RECURSIVE HintPipe(_, _, _)
HintPipe(chain, n, h) ==
  IF n = 0 THEN h ELSE HintAfter(chain[n], HintPipe(chain, n - 1, h))

\* C15: the first thing a walk does is to ask the source for its size and
\* to call Begin on every stage, from the first to the terminal stage; the
\* hint stage i gets is the source's GetSizeIfKnown taken through the
\* rules of the i - 1 operations declared before it: unknown after Filter,
\* FlatMap and Distinct, unchanged after Map, Peek and Sorted, min(h,
\* maxCount) after Limit and max(h - n, 0) after Skip when h > 0, else h.
C15_SizeHints ==
  Started =>
    LET chain == ChainOf(cur.node)
        h0 == GetSizeIfKnown(cur.src)
    IN  /\ log[1] = Ev(0, "GetSizeIfKnown", h0, TRUE)
        /\ \A i \in 1..Len(stages) :
             log[i + 1] = Ev(i, "Begin", HintPipe(chain, i - 1, h0), TRUE)

\* over three elements: Limit(2) passes 2 on, Skip(2) then passes 0 on
C15_Witness ==
  /\ Started
  /\ Len(stages) = 3
  /\ stages[1].op = "Limit" /\ stages[2].op = "Skip"
  /\ log[2].v = 3
  /\ log[3].v = 2
  /\ log[4].v = 0
  /\ log[4].st = 3 /\ log[4].ev = "Begin"

\* the number of values from, from + step, ... on the near side of to
RangeCount(from, to, step) ==
  CASE step > 0 /\ from < to -> (to - from + step - 1) \div step
    [] step < 0 /\ from > to -> (from - to - step - 1) \div (-step)
    [] OTHER -> 0

\* the elements a source has left: of a slice, what follows its cursor; of
\* a range with a step other than 0, the values from next up to to
Left(src) ==
  IF src.kind = "slice" THEN Remaining(src)
  ELSE [j \in 1..RangeCount(src.next, src.to, src.step) |-> src.next + (j - 1) * src.step]

\* the arguments of the calls ev on stage st in the log l, in order
ArgsIn(l, st, ev) ==
  LET sel == SelectSeq(l, LAMBDA e : e.st = st /\ e.ev = ev)
  IN  [j \in 1..Len(sel) |-> sel[j].v]

\* C16: the walk over a source gives every stage the same sequence of
\* Accept calls and returns the same result as the walk of the same
\* pipeline and terminal operation over a new slice of the same elements,
\* whose size hint is the exact count; so any two sources with the same
\* elements, whatever sizes they report, give the same Accept calls and
\* the same result.
C16_HintIsAdvisory ==
  Returned =>
    LET twin == RunWalk(it(Left(cur.src)), cur.node,
                        newTerminalStage(stages[Last].op, stages[Last].fn))
    IN  /\ \A i \in 1..Len(stages) :
             Args(i, "Accept") = ArgsIn(twin.log, i, "Accept")
        /\ ret = Result(twin.stages[Last])

\* the hint of the walk is not the number of elements the source has left
HintDiffers == GetSizeIfKnown(cur.src) # Len(Left(cur.src))

\* a range of three elements (size unknown) sorted and collected
C16_Witness ==
  /\ Returned
  /\ HintDiffers
  /\ cur.src.kind = "range"
  /\ Len(stages) = 3
  /\ stages[1].op = "Sorted" /\ stages[2].op = "Limit"
  /\ ret.list = <<3, 2>>

\* the places of the log where a function of the caller failed
Failures == {k \in DOMAIN log : log[k].ev = "Fail"}

\* what holds of every failure: it is the last thing the walk does (no
\* Next, Accept or End follows), the walk is aborted and returns no
\* result, and the cursor of the source stays behind every element pulled
AbortsWalk(k) ==
  /\ k = Len(log)
  /\ pc = "panic"
  /\ ret = NoResult
  /\ Pulls >= 1
  /\ source.current = cur.src.current + Pulls

\* C17 as stated: when a function of the caller fails during a walk, the
\* walk is aborted: no further Next or Accept occurs, End is not called on
\* any stage, no result is returned and the cursor of the source stays
\* advanced past the element that was being processed.
C17_NoEndOnFailure ==
  \A k \in Failures :
    /\ AbortsWalk(k)
    /\ \A e \in DOMAIN log : log[e].ev # "End"

\* C17 amended: the same, but End may have been called before the failure:
\* a stage that got End lies at or before a Sorted stage that lies at or
\* before the stage whose function failed (the failure happened inside
\* the End of that Sorted stage: in its comparator, or in a function
\* behind it while it replayed), and it got End once; no stage gets End
\* after the failure.
C17_FailureAborts ==
  \A k \in Failures :
    /\ AbortsWalk(k)
    /\ \A e \in DOMAIN log :
         log[e].ev = "End" =>
           /\ \E j \in log[e].st..log[k].st : stages[j].op = "Sorted"
           /\ Cardinality(At(log[e].st, "End")) = 1

\* Of(1,2,3).Map(brittle).ForEach(brittle): the mapper fails on 2 with the
\* cursor behind 2 and no End
C17_Witness ==
  /\ pc = "panic"
  /\ Failures # {}
  /\ Len(stages) = 2
  /\ stages[1].op = "Map"
  /\ log[Len(log)] = Ev(1, "Fail", 2, FALSE)
  /\ cur.src.size = 3 /\ cur.src.current = 0
  /\ source.current = 2
  /\ At(1, "End") = {}

\* C18: a Skip(n) stage hands downstream what it accepted without the
\* first min(n, total) elements, unchanged and in order; its CanFinish is
\* that of its downstream stage; and a walk of Skip stages alone in front
\* of ToSlice pulls the source to exhaustion.
C18_SkipDropsFirst ==
  /\ \A i \in 1..Len(stages) :
       stages[i].op = "Skip" =>
         LET in == Args(i, "Accept")
         IN  /\ Args(i + 1, "Accept") = SubSeq(in, Min(stages[i].n, Len(in)) + 1, Len(in))
             /\ CanFinish(Walk, i) = CanFinish(Walk, i + 1)
  /\ (Returned /\ \A i \in 1..(Len(stages) - 1) : stages[i].op = "Skip") =>
       /\ ~HasNext(source)
       /\ Pulls = K

\* Of(1,2,3).Skip(1).Skip(1).ToSlice() is [3] after three Next calls
C18_Witness ==
  /\ Returned
  /\ Len(stages) = 3
  /\ stages[1].op = "Skip" /\ stages[1].n = 1
  /\ stages[2].op = "Skip" /\ stages[2].n = 1
  /\ Args(1, "Accept") = <<1, 2, 3>>
  /\ Args(2, "Accept") = <<2, 3>>
  /\ ret.list = <<3>>
  /\ Pulls = 3

\* the number of Next calls a range source with a step other than 0 has
\* answered since it was made
Yielded(src) ==
  IF src.step > 0 THEN (src.next - src.from) \div src.step
  ELSE (src.from - src.next) \div (-src.step)

\* C19: a range source yields from, from + step, from + 2 * step, ... in
\* this order, each of them on the near side of to (below it when the step
\* is positive, above it when negative); with a step other than 0 its
\* HasNext is true exactly until all RangeCount values on the near side of
\* to were yielded, which is from the start when there is none, and so
\* turns false after finitely many Next calls; with the step 0 it is true
\* exactly when from is below to.
C19_RangeYields ==
  source.kind = "range" =>
    /\ Started =>
         LET y == Args(0, "Next")
         IN  /\ source.next = cur.src.next + Len(y) * source.step
             /\ \A j \in 1..Len(y) :
                  /\ y[j] = cur.src.next + (j - 1) * source.step
                  /\ source.step >= 0 => y[j] < source.to
                  /\ source.step < 0 => y[j] > source.to
    /\ source.step # 0 =>
         /\ source.next = source.from + Yielded(source) * source.step
         /\ Yielded(source) <= RangeCount(source.from, source.to, source.step)
         /\ HasNext(source) <=>
              Yielded(source) < RangeCount(source.from, source.to, source.step)
    /\ source.step = 0 =>
         /\ source.next = source.from
         /\ HasNext(source) <=> source.from < source.to
    /\ (walks = 0 /\ ~Started) => source.next = source.from

\* the range from 2 down to -1 in steps of 2 is 2, 0
C19_Witness ==
  /\ Returned
  /\ source.kind = "range"
  /\ source.from = 2 /\ source.to = -1 /\ source.step = -2
  /\ Len(stages) = 1
  /\ ret.list = <<2, 0>>
  /\ ~HasNext(source)

\* C20: the nodes derived from one head share its one cursor. Whatever
\* node a terminal operation is invoked on, its walk starts at the cursor
\* as the walks before left it; every Next returns the element under the
\* cursor and moves the cursor on by one; nothing moves it back. So every
\* element of the source is returned by Next at most once over all the
\* walks, and a later walk never gets an element an earlier walk consumed.
C20_SharedCursor ==
  [][/\ source'.elements = source.elements
     /\ source'.current >= source.current
     /\ (pc = "idle" /\ pc' = "loop") =>
          /\ source' = source
          /\ cur'.src = source
          /\ At(0, "Next")' = {}
     /\ pc = "loop" =>
          LET new == {k \in DOMAIN log' : k > Len(log) /\ log'[k].ev = "Next"}
          IN  /\ Cardinality(new) = source'.current - source.current
              /\ Cardinality(new) <= 1
              /\ \A k \in new : log'[k].v = source.elements[source.current + 1]
     /\ pc = "idle" => At(0, "Next")' = {} \/ log' = log
    ]_vars

\* the second walk, on a sibling pipeline that branches from the head,
\* gets only the element the first walk behind Limit(2) left
C20_Witness ==
  /\ Returned
  /\ walks = 2
  /\ Len(nodes) = 3
  /\ nodes[2].op = "Limit" /\ nodes[2].prev = 1
  /\ nodes[3].op = "Map" /\ nodes[3].prev = 1
  /\ cur.node = 3
  /\ cur.src.current = 2
  /\ source.size = 3
  /\ ret.list = <<4>>


\* the place in the log of the last Begin on the terminal stage
LastBegin == CHOOSE k \in At(Len(stages), "Begin") : \A j \in At(Len(stages), "Begin") : j <= k

\* C21: over a slice source, fresh or partly consumed by an earlier walk,
\* whenever the last Begin the terminal stage got in the walk carries a
\* known size (>= 0), the terminal stage has accepted at most that many
\* elements in the walk.
C21_HintBoundsAccepts ==
  (Len(stages) > 0 /\ cur.src.kind = "slice" /\ At(Len(stages), "Begin") # {}) =>
    (log[LastBegin].v >= 0 =>
       Cardinality(At(Len(stages), "Accept")) <= log[LastBegin].v)

\* s := Of(1,2,3); after s.Limit(2).ToSlice() has taken 1 and 2,
\* s.Sorted(asc).ToSlice() begins the terminal stage with 3, then again
\* with 1 from the End of Sorted, and hands it the one element 3
C21_Witness ==
  /\ Returned
  /\ Len(stages) = 2
  /\ stages[1].op = "Sorted"
  /\ cur.src.size = 3 /\ cur.src.current = 2
  /\ Args(2, "Begin") = <<3, 1>>
  /\ Args(2, "Accept") = <<3>>
  /\ ret.list = <<3>>


==========================================================================
